---- MODULE Spec2Model ----
(***************************************************************************)
(* Branch Breakpoints: the per-branch breakpoint map of the extension, the *)
(* reconciliation of the host's live breakpoints against it                *)
(* (setBreakpoints), the folding of host change events into it             *)
(* (getUpdatedBreakpoints) and the duplicate repair run when the map is    *)
(* loaded (getWorkspaceBreakpoints).                                       *)
(*                                                                         *)
(* A breakpoint is a record                                                *)
(*   [inst, location, functionName, enabled]                               *)
(* inst         TRUE for an object of the host's SourceBreakpoint or        *)
(*              FunctionBreakpoint class, FALSE for the plain object that   *)
(*              the workspace state hands back (JsonBreakpoint);            *)
(* location     {} when the property is undefined, else {[path, range]};   *)
(* functionName {} when the property is undefined, else {name}.            *)
(* A path is a sequence of characters, a range a pair of positions.        *)
(***************************************************************************)
EXTENDS Integers, Sequences, FiniteSets, TLC

VARIABLES
    branchBreakpoints,  \* activate: let branchBreakpoints (the in-memory map)
    workspaceState,     \* context.workspaceState[breakpointMapKeyName]: {} or {map}
    head,               \* activate: let head
    isBranchLocked,     \* activate: let isBranchLocked
    breakpoints,        \* vscodeDebug.breakpoints, the host's live set
    pc,                 \* position of the running callback
    caller,             \* who called setBreakpoints: "activate" or "watch"
    newBreakpoints,     \* setBreakpoints: const newBreakpoints
    toAdd,              \* setBreakpoints: const toAdd
    toRemove,           \* setBreakpoints: const toRemove
    thrown,             \* an exception is propagating out of setBreakpoints
    recreated,          \* activate: let recreated
    last,               \* history: the last operation, its event and the map before it
    steps               \* history: number of user and branch events so far

vars == <<branchBreakpoints, workspaceState, head, isBranchLocked, breakpoints, pc,
          caller, newBreakpoints, toAdd, toRemove, thrown, recreated, last, steps>>

----------------------------------------------------------------------------
(* Bounds of the model *)

\* events (host changes, branch changes, commands) after activation
MaxSteps == 2
\* length of a branch's breakpoint list in the blob the reactive model loads
MaxStored == 2
\* length of a branch's breakpoint list in the blobs the load model and the
\* host event model load
MaxBlob == 3
\* breakpoints in the added list of one host event
MaxEvent == 2

----------------------------------------------------------------------------
(* Values *)

\* src/unnamed/part_000:264
newVersion == "0.0.2"
\* context.extension.packageJSON.version
packageVersion == "packageJSON.version"
\* a map persisted before the version property existed
NoVersion == ""

BranchNames == {"main", "dev"}

Position(l, c) == [line |-> l, character |-> c]
Range(l) == <<Position(l, 0), Position(l, 0)>>
Ranges == {Range(1), Range(2)}

PlainPath == <<"/", "a">>
HashPath == <<"/", "a", "#", "b">>
Paths == {PlainPath, HashPath}
FunctionNames == {"f", "g"}

Location(p, r) == [path |-> p, range |-> r]
Locations == {Location(p, r) : p \in Paths, r \in Ranges}

Breakpoint(i, loc, fn, en) ==
    [inst |-> i, location |-> loc, functionName |-> fn, enabled |-> en]

SourceBreakpoint(p, r, en) == Breakpoint(TRUE, {Location(p, r)}, {}, en)
FunctionBreakpoint(f, en) == Breakpoint(TRUE, {}, {f}, en)

\* the breakpoints a user sets in the editor
UserBreakpoints ==
    {SourceBreakpoint(PlainPath, Range(1), TRUE)}
        \cup {FunctionBreakpoint("f", TRUE)}

SeqsUpTo(S, n) == UNION {[1..k -> S] : k \in 0..n}

RangeOf(s) == {s[i] : i \in 1..Len(s)}

NoEvent == [added |-> <<>>, changed |-> <<>>, removed |-> <<>>]

----------------------------------------------------------------------------
(* types.ts *)

ToStringPosition(position) ==
    <<"(", position.line, ", ", position.character, ")">>

ToStringRange(range) ==
    <<"[">> \o ToStringPosition(range[1]) \o <<", ">>
        \o ToStringPosition(range[2]) \o <<"]">>

isSourceBreakpoint(breakpoint) == breakpoint.location # {}

isFunctionBreakpoint(breakpoint) == breakpoint.functionName # {}

LocationOf(breakpoint) == CHOOSE l \in breakpoint.location : TRUE

FunctionNameOf(breakpoint) == CHOOSE f \in breakpoint.functionName : TRUE

areLineCharsEqual(lineChar1, lineChar2) ==
    lineChar1.line = lineChar2.line /\ lineChar1.character = lineChar2.character

areRangesEqual(range1, range2) ==
    areLineCharsEqual(range1[1], range2[1]) /\ areLineCharsEqual(range1[2], range2[2])

\* toJsonRange reads range.start and range.end. The range of a host object is a
\* Range and has them; the range of a plain object is the pair JsonRange, on
\* which both are undefined, so that toJsonLineChar throws a TypeError.
toJsonRangeThrows(breakpoint) == ~breakpoint.inst

\* "true", "false", or "throw" when the comparison ends in a TypeError
areBreakpointsEqual(breakpoint1, breakpoint2) ==
    IF isSourceBreakpoint(breakpoint1) /\ isSourceBreakpoint(breakpoint2)
    THEN IF LocationOf(breakpoint1).path # LocationOf(breakpoint2).path
         THEN "false"
         ELSE IF breakpoint1.inst /\ breakpoint2.inst
              THEN IF LocationOf(breakpoint1).range = LocationOf(breakpoint2).range
                   THEN "true" ELSE "false"
              ELSE IF toJsonRangeThrows(breakpoint1) \/ toJsonRangeThrows(breakpoint2)
                   THEN "throw"
                   ELSE IF areRangesEqual(LocationOf(breakpoint1).range,
                                          LocationOf(breakpoint2).range)
                        THEN "true" ELSE "false"
    ELSE IF isFunctionBreakpoint(breakpoint1) /\ isFunctionBreakpoint(breakpoint2)
         THEN IF FunctionNameOf(breakpoint1) = FunctionNameOf(breakpoint2)
              THEN "true" ELSE "false"
         ELSE "false"

----------------------------------------------------------------------------
(* JavaScript arrays; indices are zero-based as in the source, -1 is "not found" *)

Min(a, b) == IF a < b THEN a ELSE b
Max(a, b) == IF a > b THEN a ELSE b

\* a relative index of Array.prototype.slice and splice, resolved against length n
JsIndex(i, n) == IF i < 0 THEN Max(n + i, 0) ELSE Min(i, n)

\* array.slice(start, end)
JsSlice(array, start, end) ==
    SubSeq(array, JsIndex(start, Len(array)) + 1, JsIndex(end, Len(array)))

\* the array after array.splice(start, 1)
JsSpliceOne(array, start) ==
    LET s == JsIndex(start, Len(array))
    IN  SubSeq(array, 1, s) \o SubSeq(array, s + 2, Len(array))

\* array.findIndex(x => areBreakpointsEqual(x, breakpoint)), or with the
\* arguments the other way round as array.find does in the added loop
RECURSIVE FindFrom(_, _, _, _)
FindFrom(array, breakpoint, i, eventFirst) ==
    IF i > Len(array)
    THEN [threw |-> FALSE, index |-> -1]
    ELSE LET r == IF eventFirst
                  THEN areBreakpointsEqual(breakpoint, array[i])
                  ELSE areBreakpointsEqual(array[i], breakpoint)
         IN  IF r = "throw" THEN [threw |-> TRUE, index |-> -1]
             ELSE IF r = "true" THEN [threw |-> FALSE, index |-> i - 1]
             ELSE FindFrom(array, breakpoint, i + 1, eventFirst)

findIndex(array, breakpoint) == FindFrom(array, breakpoint, 1, FALSE)

find(array, breakpoint) == FindFrom(array, breakpoint, 1, TRUE)

----------------------------------------------------------------------------
(* getUpdatedBreakpoints *)

\* for (const breakpoint of e.added): the list after the loop, or after the
\* iteration whose comparison threw
RECURSIVE AddedLoop(_, _)
AddedLoop(list, added) ==
    IF added = <<>>
    THEN [threw |-> FALSE, breakpoints |-> list]
    ELSE LET existinBreakpoint == find(list, Head(added))
         IN  IF existinBreakpoint.threw
             THEN [threw |-> TRUE, breakpoints |-> list]
             ELSE AddedLoop(IF existinBreakpoint.index = -1
                            THEN Append(list, Head(added))
                            ELSE list,
                            Tail(added))

\* one iteration of the changed loop, index being what findIndex returned
ChangedAt(list, index, breakpoint) ==
    LET spliced == JsSpliceOne(list, index)
    IN  JsSlice(spliced, 0, index) \o <<breakpoint>>
            \o JsSlice(spliced, index + 1, Len(spliced))

RECURSIVE ChangedLoop(_, _)
ChangedLoop(list, changed) ==
    IF changed = <<>>
    THEN [threw |-> FALSE, breakpoints |-> list]
    ELSE LET found == findIndex(list, Head(changed))
         IN  IF found.threw
             THEN [threw |-> TRUE, breakpoints |-> list]
             ELSE ChangedLoop(ChangedAt(list, found.index, Head(changed)),
                              Tail(changed))

\* one iteration of the removed loop
RemovedAt(list, index) == JsSpliceOne(list, index)

RECURSIVE RemovedLoop(_, _)
RemovedLoop(list, removed) ==
    IF removed = <<>>
    THEN [threw |-> FALSE, breakpoints |-> list]
    ELSE LET found == findIndex(list, Head(removed))
         IN  IF found.threw
             THEN [threw |-> TRUE, breakpoints |-> list]
             ELSE RemovedLoop(RemovedAt(list, found.index), Tail(removed))

\* the three loops in turn
FoldEvent(list, e) ==
    LET a == AddedLoop(list, e.added)
        c == IF a.threw THEN a ELSE ChangedLoop(a.breakpoints, e.changed)
    IN  IF c.threw THEN c ELSE RemovedLoop(c.breakpoints, e.removed)

\* branchBreakpoints.branch.findIndex(x => x.name === head)
RECURSIVE BranchIndexFrom(_, _, _)
BranchIndexFrom(branch, name, i) ==
    IF i > Len(branch) THEN -1
    ELSE IF branch[i].name = name THEN i - 1
    ELSE BranchIndexFrom(branch, name, i + 1)

\* the lookup that never finds the branch
BranchIndexNotFound(map, name) == -1

BranchIndex(map, name) == BranchIndexFrom(map.branch, name, 1)

\* the guard left out: events are folded in whatever the lock says
LockedReturnNever(locked) == FALSE

\* lines 178-180: the callback's guard
LockedReturn(locked) == locked

\* the returned array holds the current branch alone
UpdatedBranchesCurrentOnly(branches, index, branch) == <<branch>>

\* lines 216-221: a copy of the branch array with the current branch put at its
\* index, or pushed when the map had no entry for it
UpdatedBranches(branches, index, branch) ==
    IF index = -1
    THEN Append(branches, branch)
    ELSE [branches EXCEPT ![index + 1] = branch]

\* The call getUpdatedBreakpoints(e, locked, map, name).
\*   update  {} when the call returned undefined or threw, else {returned map}
\*   input   the map passed in as it is after the call: the loops work on the
\*           Branch object of the input map, so they change it in place
\*   threw   a comparison ended in a TypeError
getUpdatedBreakpoints(e, locked, map, name) ==
    IF LockedReturn(locked)
    THEN [update |-> {}, input |-> map, threw |-> FALSE]
    ELSE LET index == BranchIndex(map, name)
             list == IF index # -1 THEN map.branch[index + 1].breakpoints ELSE <<>>
             r == FoldEvent(list, e)
             branch == [name |-> name, breakpoints |-> r.breakpoints]
             input == IF index # -1
                      THEN [map EXCEPT !.branch[index + 1] = branch]
                      ELSE map
             updatedBranches == UpdatedBranches(map.branch, index, branch)
         IN  [update |-> IF r.threw THEN {}
                         ELSE {[version |-> map.version, branch |-> updatedBranches]},
              input |-> input,
              threw |-> r.threw]

----------------------------------------------------------------------------
(* getBreakpoint *)

\* Uri.parse(value).path: the path component ends at the first "?" or "#"
RECURSIVE UriParsePath(_)
UriParsePath(value) ==
    IF value = <<>> \/ Head(value) \in {"?", "#"}
    THEN <<>>
    ELSE <<Head(value)>> \o UriParsePath(Tail(value))

getBreakpoint(breakpoint) ==
    IF breakpoint.inst
    THEN [threw |-> FALSE, breakpoint |-> breakpoint]
    ELSE IF breakpoint.location # {}
    THEN [threw |-> FALSE,
          breakpoint |-> SourceBreakpoint(UriParsePath(LocationOf(breakpoint).path),
                                          LocationOf(breakpoint).range,
                                          breakpoint.enabled)]
    ELSE IF breakpoint.functionName # {}
    THEN [threw |-> FALSE,
          breakpoint |-> FunctionBreakpoint(FunctionNameOf(breakpoint),
                                            breakpoint.enabled)]
    ELSE [threw |-> TRUE, breakpoint |-> breakpoint]

\* jsonBreakpoints.map(getBreakpoint)
MapGetBreakpoint(jsonBreakpoints) ==
    [threw |-> \E i \in 1..Len(jsonBreakpoints) : getBreakpoint(jsonBreakpoints[i]).threw,
     breakpoints |-> [i \in 1..Len(jsonBreakpoints) |->
                         getBreakpoint(jsonBreakpoints[i]).breakpoint]]

\* JSON.stringify as the workspace state applies it: class instances are
\* stored as plain objects
ToJsonBreakpoint(breakpoint) == [breakpoint EXCEPT !.inst = FALSE]

ToJson(map) ==
    [version |-> map.version,
     branch |-> [i \in 1..Len(map.branch) |->
                    [name |-> map.branch[i].name,
                     breakpoints |-> [j \in 1..Len(map.branch[i].breakpoints) |->
                         ToJsonBreakpoint(map.branch[i].breakpoints[j])]]]]

----------------------------------------------------------------------------
(* getWorkspaceBreakpoints: the duplicate repair.  A JavaScript Map iterates *)
(* in insertion order and set() on a present key keeps the key's place, so a *)
(* Map is a sequence of entries in the order the keys were first set.        *)

getInitialBranchBreakpoints == [version |-> packageVersion, branch |-> <<>>]

RECURSIVE KeyIndexFrom(_, _, _)
KeyIndexFrom(map, key, i) ==
    IF i > Len(map) THEN 0
    ELSE IF map[i].key = key THEN i
    ELSE KeyIndexFrom(map, key, i + 1)

\* position of key in a Map, 0 when map.get(key) is undefined
KeyIndex(map, key) == KeyIndexFrom(map, key, 1)

\* the entry keeps the breakpoint it holds and only counts the new one
DuplicateEntryKeepsFirst(duplicateBreakpoints, breakpoint) ==
    [breakpoint |-> duplicateBreakpoints.breakpoint,
     count |-> duplicateBreakpoints.count + 1]

\* line 297: the entry stored for a (path, range) key that is already present
DuplicateEntry(duplicateBreakpoints, breakpoint) ==
    [breakpoint |-> breakpoint, count |-> duplicateBreakpoints.count + 1]

\* lines 285-299: rangeMap.set(rangeStr, duplicateBreakpoints)
LocationPathMapSet(locationPathMap, breakpoint) ==
    LET path == LocationOf(breakpoint).path
        rangeStr == ToStringRange(LocationOf(breakpoint).range)
        p == KeyIndex(locationPathMap, path)
        withPath == IF p = 0
                    THEN Append(locationPathMap, [key |-> path, value |-> <<>>])
                    ELSE locationPathMap
        pAt == IF p = 0 THEN Len(withPath) ELSE p
        rangeMap == withPath[pAt].value
        r == KeyIndex(rangeMap, rangeStr)
        duplicateBreakpoints ==
            IF r = 0
            THEN [breakpoint |-> breakpoint, count |-> 1]
            ELSE DuplicateEntry(rangeMap[r].value, breakpoint)
        newRangeMap ==
            IF r = 0
            THEN Append(rangeMap, [key |-> rangeStr, value |-> duplicateBreakpoints])
            ELSE [rangeMap EXCEPT ![r].value = duplicateBreakpoints]
    IN  [withPath EXCEPT ![pAt].value = newRangeMap]

\* lines 301-306
FunctionNameMapSet(functionNameMap, breakpoint) ==
    LET func == FunctionNameOf(breakpoint)
        f == KeyIndex(functionNameMap, func)
    IN  IF f = 0
        THEN Append(functionNameMap, [key |-> func, value |-> <<breakpoint>>])
        ELSE [functionNameMap EXCEPT ![f].value = Append(@, breakpoint)]

\* lines 278-308: the two maps after the scan of the first n breakpoints
RECURSIVE ScanBreakpoints(_, _)
ScanBreakpoints(list, n) ==
    IF n = 0
    THEN [locationPathMap |-> <<>>, functionNameMap |-> <<>>]
    ELSE LET m == ScanBreakpoints(list, n - 1)
             breakpoint == list[n]
             loc == breakpoint.location
             func == breakpoint.functionName
         IN  IF loc # {} /\ func # {} THEN m
             ELSE IF loc # {}
             THEN [m EXCEPT !.locationPathMap = LocationPathMapSet(@, breakpoint)]
             ELSE IF func # {}
             THEN [m EXCEPT !.functionNameMap = FunctionNameMapSet(@, breakpoint)]
             ELSE m

\* the values of a Map of Maps, flattened in iteration order
RECURSIVE RangeEntries(_)
RangeEntries(locationPathMap) ==
    IF locationPathMap = <<>> THEN <<>>
    ELSE [i \in 1..Len(Head(locationPathMap).value) |->
              Head(locationPathMap).value[i].value]
         \o RangeEntries(Tail(locationPathMap))

\* the counts compared with >= 1 instead of > 1
NeedsRecreateFromOne(m) ==
    \/ \E i \in 1..Len(RangeEntries(m.locationPathMap)) :
            RangeEntries(m.locationPathMap)[i].count >= 1
    \/ \E i \in 1..Len(m.functionNameMap) : Len(m.functionNameMap[i].value) >= 1

\* lines 310-324
NeedsRecreate(m) ==
    \/ \E i \in 1..Len(RangeEntries(m.locationPathMap)) :
            RangeEntries(m.locationPathMap)[i].count > 1
    \/ \E i \in 1..Len(m.functionNameMap) : Len(m.functionNameMap[i].value) > 1

\* every breakpoint of a function name pushed instead of the first
RECURSIVE AllFunctionBreakpoints(_)
AllFunctionBreakpoints(functionNameMap) ==
    IF functionNameMap = <<>> THEN <<>>
    ELSE Head(functionNameMap).value \o AllFunctionBreakpoints(Tail(functionNameMap))

RecreatedKeepsFunctionDuplicates(m) ==
    [i \in 1..Len(RangeEntries(m.locationPathMap)) |->
        RangeEntries(m.locationPathMap)[i].breakpoint]
    \o AllFunctionBreakpoints(m.functionNameMap)

\* lines 326-334
RecreatedBreakpoints(m) ==
    [i \in 1..Len(RangeEntries(m.locationPathMap)) |->
        RangeEntries(m.locationPathMap)[i].breakpoint]
    \o [i \in 1..Len(m.functionNameMap) |-> m.functionNameMap[i].value[1]]

\* the list rebuilt whether or not a key has more than one entry
CheckBranchAlwaysRecreates(branch) ==
    LET m == ScanBreakpoints(branch.breakpoints, Len(branch.breakpoints))
    IN  [branch |-> [branch EXCEPT !.breakpoints = RecreatedBreakpoints(m)],
         needsRecreate |-> TRUE]

\* the body of the loop over the branches
CheckBranch(branch) ==
    LET m == ScanBreakpoints(branch.breakpoints, Len(branch.breakpoints))
    IN  IF NeedsRecreate(m)
        THEN [branch |-> [branch EXCEPT !.breakpoints = RecreatedBreakpoints(m)],
              needsRecreate |-> TRUE]
        ELSE [branch |-> branch, needsRecreate |-> FALSE]

\* lines 270-345 on a map that has been read
CheckBranches(map) ==
    [branchBreakpoints |->
        [map EXCEPT !.branch = [i \in 1..Len(map.branch) |->
                                   CheckBranch(map.branch[i]).branch]],
     recreated |-> \E i \in 1..Len(map.branch) : CheckBranch(map.branch[i]).needsRecreate]

\* lines 262-269: the map read from the workspace state; one without a version
\* is replaced by the initial map and the blob is erased
ReadMap(state) ==
    LET read == IF state = {} THEN getInitialBranchBreakpoints
                ELSE CHOOSE m \in state : TRUE
    IN  IF read.version = NoVersion
        THEN [map |-> [getInitialBranchBreakpoints EXCEPT !.version = newVersion],
              workspaceState |-> {}]
        ELSE [map |-> read, workspaceState |-> state]

getWorkspaceBreakpoints(state) ==
    LET read == ReadMap(state)
        checked == CheckBranches(read.map)
    IN  [branchBreakpoints |-> checked.branchBreakpoints,
         recreated |-> checked.recreated,
         workspaceState |-> read.workspaceState]

----------------------------------------------------------------------------
(* The extension as a state machine *)

\* the plain objects of the blobs the reactive model starts from
StoredBreakpoints ==
    {Breakpoint(FALSE, {Location(PlainPath, Range(2))}, {}, TRUE),
     Breakpoint(FALSE, {Location(HashPath, Range(1))}, {}, TRUE),
     Breakpoint(FALSE, {}, {"f"}, TRUE),
     Breakpoint(FALSE, {}, {}, TRUE),
     Breakpoint(FALSE, {Location(PlainPath, Range(1))}, {"f"}, TRUE)}

\* the blobs: branch main with any list, branch dev absent or with one breakpoint
StoredMaps ==
    {[version |-> v, branch |-> <<[name |-> "main", breakpoints |-> l]>> \o d] :
        v \in {packageVersion},
        l \in SeqsUpTo(StoredBreakpoints, MaxStored),
        d \in {<<>>, <<[name |-> "dev",
                        breakpoints |-> <<Breakpoint(FALSE, {}, {"f"}, TRUE)>>]>>}}
    \cup {[version |-> NoVersion,
           branch |-> <<[name |-> "main",
                         breakpoints |-> <<Breakpoint(FALSE, {}, {"f"}, TRUE)>>]>>]}

\* the breakpoints the host restored before the extension is activated
RestoredBreakpoints == {{}, {SourceBreakpoint(PlainPath, Range(1), TRUE)}}

History(op, e) ==
    [op |-> op, e |-> e, map |-> branchBreakpoints, state |-> workspaceState,
     live |-> breakpoints, head |-> head, recreated |-> recreated]

NoHistory ==
    [op |-> "init", e |-> NoEvent, map |-> getInitialBranchBreakpoints,
     state |-> {}, live |-> {}, head |-> "__noBranchName", recreated |-> FALSE]

Init ==
    /\ workspaceState \in {{}} \cup {{m} : m \in StoredMaps}
    /\ branchBreakpoints = getInitialBranchBreakpoints
    /\ head = "__noBranchName"
    /\ isBranchLocked = FALSE
    /\ breakpoints \in RestoredBreakpoints
    /\ pc = "activate"
    /\ caller = "activate"
    /\ newBreakpoints = <<>>
    /\ toAdd = <<>>
    /\ toRemove = <<>>
    /\ thrown = FALSE
    /\ recreated = FALSE
    /\ last = NoHistory
    /\ steps = 0

\* all orders of a finite set
Orders(S) ==
    {s \in [1..Cardinality(S) -> S] : \A x \in S : \E i \in 1..Cardinality(S) : s[i] = x}

\* lines 17-46: load the map, read the head; a repaired map is applied
Activate(h) ==
    /\ pc = "activate"
    /\ \E r \in {getWorkspaceBreakpoints(workspaceState)} :
           /\ branchBreakpoints' = r.branchBreakpoints
           /\ recreated' = r.recreated
           /\ workspaceState' = r.workspaceState
           /\ isBranchLocked' = r.recreated
           /\ pc' = IF r.recreated THEN "diff" ELSE "idle"
    /\ head' = h
    /\ caller' = "activate"
    /\ last' = History("activate", NoEvent)
    /\ UNCHANGED <<breakpoints, newBreakpoints, toAdd, toRemove, thrown, steps>>

\* lines 32-42: the watcher's callback on a changed head
HeadChanged(newHead) ==
    /\ pc = "idle"
    /\ steps < MaxSteps
    /\ newHead # head
    /\ head' = newHead
    /\ isBranchLocked' = TRUE
    /\ pc' = "diff"
    /\ caller' = "watch"
    /\ last' = History("setBreakpoints", NoEvent)
    /\ steps' = steps + 1
    /\ UNCHANGED <<branchBreakpoints, workspaceState, breakpoints, newBreakpoints,
                   toAdd, toRemove, thrown, recreated>>

\* the stored list of a branch, <<>> when the branch has no entry
StoredList(map, name) ==
    IF BranchIndex(map, name) = -1 THEN <<>>
    ELSE map.branch[BranchIndex(map, name) + 1].breakpoints

HasEqual(breakpoint, others) ==
    \E x \in others : areBreakpointsEqual(breakpoint, x) = "true"

\* lines 100-105, in some order of the host's array
ToRemove(curBreakpoints, new) ==
    {breakpoint \in curBreakpoints : ~HasEqual(breakpoint, RangeOf(new))}

\* every stored breakpoint added again, as in the code commented out at 118-122
ToAddAll(curBreakpoints, new) == new

\* lines 106-111
ToAdd(curBreakpoints, new) ==
    LET Missing(breakpoint) == ~HasEqual(breakpoint, curBreakpoints)
    IN  SelectSeq(new, Missing)

\* the stored list applied even when it is missing or empty
HasBreakpointsAlways(jsonBreakpoints) == TRUE

\* line 95: jsonBreakpoints && jsonBreakpoints.length !== 0; a missing entry
\* is the empty list here
HasBreakpoints(jsonBreakpoints) == Len(jsonBreakpoints) # 0

\* lines 90-115: the host's set once setBreakpoints has run on cur
LiveAfterSetBreakpoints(map, name, cur) ==
    LET jsonBreakpoints == StoredList(map, name)
        m == MapGetBreakpoint(jsonBreakpoints)
    IN  IF ~HasBreakpoints(jsonBreakpoints) \/ m.threw
        THEN cur
        ELSE (cur \cup RangeOf(ToAdd(cur, m.breakpoints)))
                 \ ToRemove(cur, m.breakpoints)

\* lines 90-111: materialize the stored list and diff it against the host
SetBreakpointsDiff ==
    /\ pc = "diff"
    /\ \E jsonBreakpoints \in {StoredList(branchBreakpoints, head)} :
       \E m \in {MapGetBreakpoint(jsonBreakpoints)} :
           IF HasBreakpoints(jsonBreakpoints)
           THEN IF m.threw
                THEN /\ thrown' = TRUE
                     /\ pc' = "finally"
                     /\ UNCHANGED <<newBreakpoints, toAdd, toRemove>>
                ELSE /\ newBreakpoints' = m.breakpoints
                     /\ toAdd' = ToAdd(breakpoints, m.breakpoints)
                     /\ \E order \in Orders(ToRemove(breakpoints, m.breakpoints)) :
                            toRemove' = order
                     /\ pc' = "add"
                     /\ UNCHANGED thrown
           ELSE /\ pc' = "finally"
                /\ UNCHANGED <<newBreakpoints, toAdd, toRemove, thrown>>
    /\ UNCHANGED <<branchBreakpoints, workspaceState, head, isBranchLocked, breakpoints,
                   caller, recreated, last, steps>>

\* line 113: the host adds and, when it added something, fires its event
HostAddBreakpoints ==
    /\ pc = "add"
    /\ breakpoints' = breakpoints \cup RangeOf(toAdd)
    /\ pc' = IF toAdd # <<>> THEN "added" ELSE "remove"
    /\ UNCHANGED <<branchBreakpoints, workspaceState, head, isBranchLocked, caller,
                   newBreakpoints, toAdd, toRemove, thrown, recreated, last, steps>>

\* line 115
HostRemoveBreakpoints ==
    /\ pc = "remove"
    /\ breakpoints' = breakpoints \ RangeOf(toRemove)
    /\ pc' = IF toRemove # <<>> THEN "removed" ELSE "finally"
    /\ UNCHANGED <<branchBreakpoints, workspaceState, head, isBranchLocked, caller,
                   newBreakpoints, toAdd, toRemove, thrown, recreated, last, steps>>

\* lines 62-70: the onDidChangeBreakpoints callback
OnDidChangeBreakpoints(e) ==
    \E r \in {getUpdatedBreakpoints(e, isBranchLocked, branchBreakpoints, head)} :
        IF r.update # {}
        THEN \E update \in r.update :
                /\ branchBreakpoints' = update
                /\ workspaceState' = {ToJson(update)}
        ELSE /\ branchBreakpoints' = r.input
             /\ UNCHANGED workspaceState

\* the event the host fires from inside addBreakpoints or removeBreakpoints
ReentrantChange ==
    /\ pc \in {"added", "removed"}
    /\ OnDidChangeBreakpoints(IF pc = "added"
                              THEN [NoEvent EXCEPT !.added = toAdd]
                              ELSE [NoEvent EXCEPT !.removed = toRemove])
    /\ pc' = IF pc = "added" THEN "remove" ELSE "finally"
    /\ UNCHANGED <<head, isBranchLocked, breakpoints, caller, newBreakpoints, toAdd,
                   toRemove, thrown, recreated, last, steps>>

\* the lock reset after the try block instead of in a finally block: an
\* exception leaves it set
SetBreakpointsNoFinally ==
    /\ pc = "finally"
    /\ isBranchLocked' = thrown
    /\ thrown' = FALSE
    /\ pc' = IF caller = "activate"
             THEN IF thrown THEN "failed" ELSE "persist"
             ELSE "idle"
    /\ UNCHANGED <<branchBreakpoints, workspaceState, head, breakpoints, caller,
                   newBreakpoints, toAdd, toRemove, recreated, last, steps>>

\* lines 126-128, and where the exception or the return leads: out of the
\* watcher's callback, or out of activate, which then never registers the
\* commands and the change handler ("failed", no further step is modelled)
SetBreakpointsFinally ==
    /\ pc = "finally"
    /\ isBranchLocked' = FALSE
    /\ thrown' = FALSE
    /\ pc' = IF caller = "activate"
             THEN IF thrown THEN "failed" ELSE "persist"
             ELSE "idle"
    /\ UNCHANGED <<branchBreakpoints, workspaceState, head, breakpoints, caller,
                   newBreakpoints, toAdd, toRemove, recreated, last, steps>>

\* line 47
PersistRecreated ==
    /\ pc = "persist"
    /\ workspaceState' = {ToJson(branchBreakpoints)}
    /\ pc' = "idle"
    /\ UNCHANGED <<branchBreakpoints, head, isBranchLocked, breakpoints, caller,
                   newBreakpoints, toAdd, toRemove, thrown, recreated, last, steps>>

UserStep(op, e) ==
    /\ pc = "idle"
    /\ steps < MaxSteps
    /\ steps' = steps + 1
    /\ last' = History(op, e)
    /\ UNCHANGED <<head, isBranchLocked, pc, caller, newBreakpoints, toAdd, toRemove,
                   thrown, recreated>>

\* the user (or another extension) adds breakpoints
HostAdded(added) ==
    /\ UserStep("added", [NoEvent EXCEPT !.added = added])
    /\ breakpoints' = breakpoints \cup RangeOf(added)
    /\ OnDidChangeBreakpoints([NoEvent EXCEPT !.added = added])

\* what a live breakpoint can be changed into: toggled, or moved by an edit.
\* Breakpoints are values here: a stored entry keeps the fields it was stored
\* with when the host changes the live breakpoint.
ChangesOf(breakpoint) ==
    {[breakpoint EXCEPT !.enabled = ~breakpoint.enabled]}
    \cup IF isSourceBreakpoint(breakpoint)
         THEN {[breakpoint EXCEPT !.location =
                    {Location(LocationOf(breakpoint).path, r)}] :
                 r \in Ranges \ {LocationOf(breakpoint).range}}
         ELSE {}

HostChanged(old, new) ==
    /\ old \in breakpoints
    /\ new \in ChangesOf(old)
    /\ UserStep("changed", [NoEvent EXCEPT !.changed = <<new>>])
    /\ breakpoints' = (breakpoints \ {old}) \cup {new}
    /\ OnDidChangeBreakpoints([NoEvent EXCEPT !.changed = <<new>>])

HostRemoved(removed) ==
    /\ removed # <<>>
    /\ UserStep("removed", [NoEvent EXCEPT !.removed = removed])
    /\ breakpoints' = breakpoints \ RangeOf(removed)
    /\ OnDidChangeBreakpoints([NoEvent EXCEPT !.removed = removed])

\* the map reset in memory only, the blob left in the workspace state
clearBranchBreakpointsKeepsBlob ==
    /\ branchBreakpoints' = getInitialBranchBreakpoints
    /\ UNCHANGED workspaceState

\* lines 134-141
clearBranchBreakpoints ==
    /\ branchBreakpoints' = getInitialBranchBreakpoints
    /\ workspaceState' = {}

\* lines 54-56
ClearMapCommand ==
    /\ UserStep("clearMap", NoEvent)
    /\ clearBranchBreakpoints
    /\ UNCHANGED breakpoints

\* lines 51-53
PrintMapCommand ==
    /\ UserStep("printMap", NoEvent)
    /\ UNCHANGED <<branchBreakpoints, workspaceState, breakpoints>>

Next ==
    \/ \E h \in BranchNames : Activate(h)
    \/ \E h \in BranchNames : HeadChanged(h)
    \/ SetBreakpointsDiff
    \/ HostAddBreakpoints
    \/ HostRemoveBreakpoints
    \/ ReentrantChange
    \/ SetBreakpointsFinally
    \/ PersistRecreated
    \/ \E added \in SeqsUpTo(UserBreakpoints, MaxEvent) \ {<<>>} : HostAdded(added)
    \/ \E old \in breakpoints : \E new \in ChangesOf(old) : HostChanged(old, new)
    \/ \E S \in SUBSET breakpoints : \E removed \in Orders(S) :
            Len(removed) <= MaxEvent /\ HostRemoved(removed)
    \/ ClearMapCommand
    \/ PrintMapCommand

Spec == Init /\ [][Next]_vars

----------------------------------------------------------------------------
(* The load alone: the duplicate repair on every blob up to MaxBlob entries *)

LoadedBreakpoints ==
    {Breakpoint(FALSE, {Location(PlainPath, Range(1))}, {}, TRUE),
     Breakpoint(FALSE, {Location(PlainPath, Range(1))}, {}, FALSE),
     Breakpoint(FALSE, {Location(PlainPath, Range(2))}, {}, TRUE),
     Breakpoint(FALSE, {Location(HashPath, Range(1))}, {}, TRUE),
     Breakpoint(FALSE, {}, {"f"}, TRUE),
     Breakpoint(FALSE, {}, {"f"}, FALSE),
     Breakpoint(FALSE, {}, {"g"}, TRUE),
     Breakpoint(FALSE, {}, {}, TRUE),
     Breakpoint(FALSE, {Location(PlainPath, Range(1))}, {"f"}, TRUE)}

LoadedMaps ==
    {[version |-> packageVersion,
      branch |-> <<[name |-> "main", breakpoints |-> l]>> \o d] :
        l \in SeqsUpTo(LoadedBreakpoints, MaxBlob),
        d \in {<<>>,
               <<[name |-> "dev",
                  breakpoints |-> <<Breakpoint(FALSE, {}, {"f"}, TRUE)>>]>>,
               <<[name |-> "dev",
                  breakpoints |-> <<Breakpoint(FALSE, {}, {"f"}, TRUE),
                                    Breakpoint(FALSE, {}, {"f"}, FALSE)>>]>>}}

InitLoad ==
    /\ workspaceState \in {{m} : m \in LoadedMaps}
    /\ branchBreakpoints = getInitialBranchBreakpoints
    /\ head = "__noBranchName"
    /\ isBranchLocked = FALSE
    /\ breakpoints = {}
    /\ pc = "activate"
    /\ caller = "activate"
    /\ newBreakpoints = <<>>
    /\ toAdd = <<>>
    /\ toRemove = <<>>
    /\ thrown = FALSE
    /\ recreated = FALSE
    /\ last = NoHistory
    /\ steps = 0

\* lines 270-345 once more, on the map the first run returned
CheckAgain ==
    /\ last.op = "activate"
    /\ \E r \in {CheckBranches(branchBreakpoints)} :
           /\ branchBreakpoints' = r.branchBreakpoints
           /\ recreated' = r.recreated
    /\ last' = History("checkAgain", NoEvent)
    /\ pc' = "checked"
    /\ UNCHANGED <<workspaceState, head, isBranchLocked, breakpoints, caller,
                   newBreakpoints, toAdd, toRemove, thrown, steps>>

NextLoad ==
    \/ Activate("main")
    \/ CheckAgain

SpecLoad == InitLoad /\ [][NextLoad]_vars

----------------------------------------------------------------------------
(* Host events on a loaded map: every blob whose lists hold up to MaxBlob     *)
(* breakpoints no two of which are equal, then the host's events             *)

FoldBreakpoints ==
    {Breakpoint(FALSE, {Location(HashPath, Range(1))}, {}, TRUE),
     Breakpoint(FALSE, {}, {"f"}, TRUE),
     Breakpoint(FALSE, {}, {"g"}, TRUE)}

FoldLists ==
    {l \in SeqsUpTo(FoldBreakpoints, MaxBlob) :
        \A i, j \in 1..Len(l) : i # j => l[i] # l[j]}

FoldMaps ==
    {[version |-> packageVersion,
      branch |-> <<[name |-> "main", breakpoints |-> l]>> \o d] :
        l \in FoldLists,
        d \in {<<>>, <<[name |-> "dev",
                        breakpoints |-> <<Breakpoint(FALSE, {}, {"f"}, TRUE)>>]>>}}

InitFold ==
    /\ workspaceState \in {{m} : m \in FoldMaps}
    /\ branchBreakpoints = getInitialBranchBreakpoints
    /\ head = "__noBranchName"
    /\ isBranchLocked = FALSE
    /\ breakpoints \in RestoredBreakpoints
    /\ pc = "activate"
    /\ caller = "activate"
    /\ newBreakpoints = <<>>
    /\ toAdd = <<>>
    /\ toRemove = <<>>
    /\ thrown = FALSE
    /\ recreated = FALSE
    /\ last = NoHistory
    /\ steps = 0

NextFold ==
    \/ \E h \in BranchNames : Activate(h)
    \/ \E added \in SeqsUpTo(UserBreakpoints, MaxEvent) \ {<<>>} : HostAdded(added)
    \/ \E old \in breakpoints : \E new \in ChangesOf(old) : HostChanged(old, new)
    \/ \E S \in SUBSET breakpoints : \E removed \in Orders(S) :
            Len(removed) <= MaxEvent /\ HostRemoved(removed)

SpecFold == InitFold /\ [][NextFold]_vars

----------------------------------------------------------------------------
(* Properties *)

\* exactly one of location and functionName is set
WellFormed(breakpoint) == (breakpoint.location = {}) # (breakpoint.functionName = {})

AllWellFormed(list) == \A i \in 1..Len(list) : WellFormed(list[i])

\* the identity rule: Source breakpoints by path and range, Function
\* breakpoints by name, whatever the kind of object
SameIdentity(a, b) ==
    /\ a.location = b.location
    /\ a.functionName = b.functionName

\* setBreakpoints has just run to its end
ApplyDone ==
    \/ pc = "idle" /\ last.op = "setBreakpoints"
    \/ pc = "persist"

CurrentList == StoredList(branchBreakpoints, head)

PreviousList == StoredList(last.map, last.head)

\* C1: after setBreakpoints on a non-empty list of well-formed breakpoints the
\* host's set equals the stored list under the identity rule: every stored
\* breakpoint has an equal live one and every live one an equal stored one.
C1_LiveEqualsStored ==
    (ApplyDone /\ CurrentList # <<>> /\ AllWellFormed(CurrentList))
        => /\ \A i \in 1..Len(CurrentList) :
                \E b \in breakpoints : SameIdentity(CurrentList[i], b)
           /\ \A b \in breakpoints :
                \E i \in 1..Len(CurrentList) : SameIdentity(CurrentList[i], b)

\* C2: a host change event delivered while isBranchLocked is true, the ones the
\* host fires from inside addBreakpoints and removeBreakpoints included, leaves
\* the map and the persisted blob as they are.
C2_LockedEventIgnored ==
    [][(isBranchLocked /\ pc \in {"added", "removed"})
          => (branchBreakpoints' = branchBreakpoints /\ workspaceState' = workspaceState)]_vars

C2_Witness ==
    /\ isBranchLocked
    /\ \/ pc = "remove" /\ toAdd # <<>>
       \/ pc = "finally" /\ toRemove # <<>>

\* C3: isBranchLocked is true whenever setBreakpoints is between its entry and
\* its finally block, so before any add or remove call, and false everywhere
\* else: after a normal return, after the no-op on a missing or empty list and
\* after getBreakpoint threw.
C3_LockScoped ==
    isBranchLocked <=> pc \in {"diff", "add", "added", "remove", "removed", "finally"}

C3_Witness ==
    /\ pc = "idle"
    /\ last.op = "setBreakpoints"
    /\ MapGetBreakpoint(CurrentList).threw
    /\ ~isBranchLocked

\* the changed breakpoint of the last event and where findIndex found it
LastChanged == last.e.changed[1]
LastChangedFound == findIndex(PreviousList, LastChanged)

\* C4: a changed breakpoint that has an equal stored entry replaces the first
\* equal entry in place: same length, the new breakpoint at that index, every
\* other entry where it was.
C4_ChangedReplacesInPlace ==
    (last.op = "changed" /\ pc = "idle" /\ AllWellFormed(PreviousList)
        /\ ~LastChangedFound.threw /\ LastChangedFound.index # -1)
        => CurrentList = [PreviousList EXCEPT ![LastChangedFound.index + 1] = LastChanged]

\* C5: a changed breakpoint that has no equal stored entry leaves the stored
\* list of the branch as it was.
C5_ChangedNoMatchNoOp ==
    (last.op = "changed" /\ pc = "idle" /\ AllWellFormed(PreviousList)
        /\ ~LastChangedFound.threw /\ LastChangedFound.index = -1)
        => CurrentList = PreviousList

LastRemoved == last.e.removed[1]
LastRemovedFound == findIndex(PreviousList, LastRemoved)

\* the list without its entry at the zero-based index i
WithoutIndex(list, i) == SubSeq(list, 1, i) \o SubSeq(list, i + 2, Len(list))

\* C6: a removed breakpoint with no equal stored entry leaves the stored list
\* unchanged; with an equal entry, exactly the first equal entry is deleted and
\* the others keep their order.
C6_RemovedFirstMatchOrNoOp ==
    (last.op = "removed" /\ pc = "idle" /\ Len(last.e.removed) = 1
        /\ AllWellFormed(PreviousList)
        /\ ~LastRemovedFound.threw)
        => CurrentList = IF LastRemovedFound.index = -1
                         THEN PreviousList
                         ELSE WithoutIndex(PreviousList, LastRemovedFound.index)

\* C7: setBreakpoints run a second time right after itself finds nothing to
\* add and nothing to remove and leaves the host's set as the first run left it.
C7_ApplyIdempotent ==
    ApplyDone =>
        /\ LiveAfterSetBreakpoints(branchBreakpoints, head, breakpoints) = breakpoints
        /\ (CurrentList # <<>> /\ ~MapGetBreakpoint(CurrentList).threw)
              => /\ ToAdd(breakpoints, MapGetBreakpoint(CurrentList).breakpoints) = <<>>
                 /\ ToRemove(breakpoints, MapGetBreakpoint(CurrentList).breakpoints) = {}

C7_Witness ==
    /\ ApplyDone
    /\ toAdd # <<>>
    /\ toRemove # <<>>
    /\ breakpoints # last.live

\* the list the identity rule asks for: each added breakpoint appended unless
\* an equal entry is there already
RECURSIVE AppendUnlessEqual(_, _)
AppendUnlessEqual(list, added) ==
    IF added = <<>> THEN list
    ELSE AppendUnlessEqual(
            IF \E i \in 1..Len(list) : SameIdentity(list[i], Head(added))
            THEN list ELSE Append(list, Head(added)),
            Tail(added))

\* C8: each added breakpoint is appended to the current branch's list unless an
\* equal entry exists, one appended earlier in the same event included; a
\* branch without an entry gets one.
C8_AddedAppendedUnlessEqual ==
    (last.op = "added" /\ pc = "idle" /\ AllWellFormed(PreviousList))
        => /\ BranchIndex(branchBreakpoints, head) # -1
           /\ CurrentList = AppendUnlessEqual(PreviousList, last.e.added)

\* the input of the load and the branch lists before and after it
LoadedInput == CHOOSE m \in last.state : TRUE

\* the well-formed Source breakpoints of a list at one (path, range) key
AtLocation(list, loc) ==
    SelectSeq(list, LAMBDA b : b.location = {loc} /\ b.functionName = {})

\* the well-formed Function breakpoints of a list with one name
WithName(list, f) ==
    SelectSeq(list, LAMBDA b : b.location = {} /\ b.functionName = {f})

\* C9: the repair run on the output of a first run changes no list and reports
\* that nothing was recreated.
C9_RepairIdempotent ==
    last.op = "checkAgain" => (branchBreakpoints = last.map /\ ~recreated)

C9_Witness ==
    /\ last.op = "checkAgain"
    /\ last.recreated
    /\ branchBreakpoints = last.map

\* C10 as stated: of the breakpoints at a (path, range) key that has more than
\* one the first one scanned is retained, and of those with one function name
\* the first.
C10_FirstRetained ==
    (last.op = "activate" /\ last.state # {})
        => \A i \in 1..Len(LoadedInput.branch) :
             LET before == LoadedInput.branch[i].breakpoints
                 after == branchBreakpoints.branch[i].breakpoints
             IN  /\ \A loc \in Locations :
                       Len(AtLocation(before, loc)) > 1
                           => AtLocation(after, loc) = <<AtLocation(before, loc)[1]>>
                 /\ \A f \in FunctionNames :
                       Len(WithName(before, f)) > 0
                           => WithName(after, f) = <<WithName(before, f)[1]>>

\* C10 amended: of the breakpoints at a (path, range) key that has more than
\* one the last one scanned is retained, the others are discarded; of those
\* with one function name the first is retained.
C10_LastLocationFirstFunctionRetained ==
    (last.op = "activate" /\ last.state # {})
        => \A i \in 1..Len(LoadedInput.branch) :
             LET before == LoadedInput.branch[i].breakpoints
                 after == branchBreakpoints.branch[i].breakpoints
             IN  /\ \A loc \in Locations :
                       Len(AtLocation(before, loc)) > 1
                           => AtLocation(after, loc) =
                                <<AtLocation(before, loc)[Len(AtLocation(before, loc))]>>
                 /\ \A f \in FunctionNames :
                       Len(WithName(before, f)) > 0
                           => WithName(after, f) = <<WithName(before, f)[1]>>

C10_Witness ==
    /\ last.op = "activate"
    /\ last.state # {}
    /\ \E loc \in Locations :
          LET same == AtLocation(LoadedInput.branch[1].breakpoints, loc)
          IN  Len(same) > 1 /\ same[1] # same[Len(same)]
    /\ Len(WithName(LoadedInput.branch[1].breakpoints, "f")) > 0
    /\ pc = "diff"

----------------------------------------------------------------------------
(* The duplicate repair as a whole *)

\* the map the repair loop runs on: the blob read, or the reset map when the
\* blob had no version
RepairInput == ReadMap(last.state).map

\* some (path, range) key or some function name of the list has more than one
\* well-formed breakpoint
HasDuplicateKey(list) ==
    \/ \E loc \in Locations : Len(AtLocation(list, loc)) > 1
    \/ \E f \in FunctionNames : Len(WithName(list, f)) > 1

NoTwoEqual(list) ==
    \A i, j \in 1..Len(list) : i # j => ~SameIdentity(list[i], list[j])

\* C11: a branch with a key that has more than one entry is flagged and its
\* list replaced by one breakpoint of the old list per (path, range) key, then
\* one per function name; breakpoints with both or neither of location and
\* functionName are gone and no two entries of the new list are equal.
C11_RecreatedOnePerKey ==
    last.op = "activate" =>
        \A i \in 1..Len(RepairInput.branch) :
            LET before == RepairInput.branch[i].breakpoints
                after == branchBreakpoints.branch[i].breakpoints
            IN  HasDuplicateKey(before) =>
                  /\ recreated
                  /\ AllWellFormed(after)
                  /\ \A k \in 1..Len(after) : after[k] \in RangeOf(before)
                  /\ \A loc \in Locations :
                        Len(AtLocation(after, loc)) =
                            IF Len(AtLocation(before, loc)) > 0 THEN 1 ELSE 0
                  /\ \A f \in FunctionNames :
                        Len(WithName(after, f)) =
                            IF Len(WithName(before, f)) > 0 THEN 1 ELSE 0
                  /\ \A j, k \in 1..Len(after) :
                        (isSourceBreakpoint(after[j]) /\ isFunctionBreakpoint(after[k]))
                            => j < k
                  /\ NoTwoEqual(after)

C11_Witness ==
    /\ last.op = "activate"
    /\ recreated
    /\ LET before == RepairInput.branch[1].breakpoints
           after == branchBreakpoints.branch[1].breakpoints
       IN  /\ HasDuplicateKey(before)
           /\ ~AllWellFormed(before)
           /\ Len(before) = MaxBlob
           /\ Len(after) = 1

\* C12: the repair keeps every branch and lengthens no list; a branch in which
\* no key has more than one entry keeps its list as it is, malformed entries
\* included, and nothing is reported recreated when every branch is such.
C12_RepairKeepsCleanBranches ==
    last.op = "activate" =>
        /\ Len(branchBreakpoints.branch) = Len(RepairInput.branch)
        /\ \A i \in 1..Len(RepairInput.branch) :
              LET before == RepairInput.branch[i]
                  after == branchBreakpoints.branch[i]
              IN  /\ after.name = before.name
                  /\ Len(after.breakpoints) <= Len(before.breakpoints)
                  /\ ~HasDuplicateKey(before.breakpoints) => after = before
        /\ (\A i \in 1..Len(RepairInput.branch) :
                ~HasDuplicateKey(RepairInput.branch[i].breakpoints))
              => ~recreated

C12_Witness ==
    /\ last.op = "activate"
    /\ ~recreated
    /\ Len(RepairInput.branch) = 2
    /\ LET before == RepairInput.branch[1].breakpoints
       IN  /\ Len(before) = MaxBlob
           /\ ~AllWellFormed(before)
           /\ branchBreakpoints.branch[1].breakpoints = before

----------------------------------------------------------------------------
(* The commands *)

\* C13 as stated: after the clear-map command the map in memory is the empty
\* branch list with the current version and the persisted blob is that same
\* empty map; a print-map command issued in that state shows an empty branch
\* array and changes nothing.
C13_ClearPersistsEmptyMap ==
    /\ last.op = "clearMap" =>
          /\ branchBreakpoints = getInitialBranchBreakpoints
          /\ workspaceState = {getInitialBranchBreakpoints}
    /\ (last.op = "printMap" /\ last.map = getInitialBranchBreakpoints) =>
          /\ branchBreakpoints.branch = <<>>
          /\ branchBreakpoints = last.map
          /\ workspaceState = last.state
          /\ breakpoints = last.live
          /\ head = last.head

\* C13 amended: after the clear-map command the map in memory is the empty
\* branch list with the current version and the persisted blob is erased (the
\* key holds no value); a print-map command issued in that state shows an
\* empty branch array and changes nothing.
C13_ClearErasesBlob ==
    /\ last.op = "clearMap" =>
          /\ branchBreakpoints = getInitialBranchBreakpoints
          /\ workspaceState = {}
    /\ (last.op = "printMap" /\ last.map = getInitialBranchBreakpoints) =>
          /\ branchBreakpoints.branch = <<>>
          /\ branchBreakpoints = last.map
          /\ workspaceState = last.state
          /\ breakpoints = last.live
          /\ head = last.head

C13_Witness ==
    /\ last.op = "clearMap"
    /\ last.map.branch # <<>>
    /\ last.state # {}
    /\ workspaceState = {}
    /\ branchBreakpoints.branch = <<>>

----------------------------------------------------------------------------
(* setBreakpoints on a branch without breakpoints *)

\* C14: setBreakpoints for a branch that has no entry in the map, or an empty
\* list, leaves the host's set and the map as they were before the call, both
\* when the watcher calls it and when activate does.
C14_NoListNoChange ==
    /\ (pc = "idle" /\ last.op = "setBreakpoints" /\ StoredList(last.map, head) = <<>>)
          => /\ breakpoints = last.live
             /\ branchBreakpoints = last.map
             /\ workspaceState = last.state
    /\ (pc = "persist" /\ CurrentList = <<>>)
          => /\ breakpoints = last.live
             /\ branchBreakpoints = getWorkspaceBreakpoints(last.state).branchBreakpoints

C14_Witness ==
    /\ pc = "idle"
    /\ last.op = "setBreakpoints"
    /\ StoredList(last.map, head) = <<>>
    /\ StoredList(last.map, last.head) # <<>>
    /\ breakpoints # {}
    /\ breakpoints = last.live

----------------------------------------------------------------------------
(* The host's set against the map *)

\* the host's set equals the list under the identity rule
InSync(live, list) ==
    /\ \A i \in 1..Len(list) : \E b \in live : SameIdentity(list[i], b)
    /\ \A b \in live : \E i \in 1..Len(list) : SameIdentity(list[i], b)

\* the last event reported a change the host's set really underwent: the added
\* breakpoints were new to it and distinct, the changed and the removed ones
\* were in it
RealChange ==
    /\ \A i \in 1..Len(last.e.added) :
          /\ ~\E b \in last.live : SameIdentity(last.e.added[i], b)
          /\ \A j \in 1..Len(last.e.added) :
                i # j => ~SameIdentity(last.e.added[i], last.e.added[j])
    /\ \A i \in 1..Len(last.e.changed) : last.e.changed[i] \in breakpoints
    /\ \A i \in 1..Len(last.e.removed) : last.e.removed[i] \in last.live

\* C15: from an idle state in which the host's set equals the stored list of
\* the active branch, a branch change to a branch with a non-empty list, or a
\* host event that reports a real change, leads to an idle state in which the
\* host's set again equals the stored list of the active branch.
C15_LiveReconcilable ==
    (/\ pc = "idle"
     /\ last.op \in {"added", "changed", "removed", "setBreakpoints"}
     /\ InSync(last.live, PreviousList)
     /\ RealChange
     /\ last.op = "setBreakpoints" => StoredList(last.map, head) # <<>>)
        => InSync(breakpoints, CurrentList)

----------------------------------------------------------------------------
(* getUpdatedBreakpoints and the map it is given *)

\* the call the handler made for the last host event
LastCall == getUpdatedBreakpoints(last.e, FALSE, last.map, last.head)

HostEventDone == pc = "idle" /\ last.op \in {"added", "changed", "removed"}

\* C16: getUpdatedBreakpoints leaves the map it is given as it was: the branch
\* array and the list of every branch of the input, the current one included,
\* hold after the call what they held before it.
C16_InputNotModified ==
    HostEventDone => LastCall.input = last.map

----------------------------------------------------------------------------
(* Loading a map without a version *)

\* C17: a persisted map without a version is migrated by the load: the map in
\* memory carries a version and holds the persisted branches with their
\* breakpoints, as the duplicate repair leaves them.
C17_MigrationKeepsBranches ==
    (last.op = "activate" /\ last.state # {} /\ LoadedInput.version = NoVersion)
        => /\ branchBreakpoints.version # NoVersion
           /\ branchBreakpoints.branch = CheckBranches(LoadedInput).branchBreakpoints.branch

----------------------------------------------------------------------------
(* Equal breakpoints in a stored list *)

NoBranchHasTwoEqual(map) ==
    \A i \in 1..Len(map.branch) : NoTwoEqual(map.branch[i].breakpoints)

\* C18: a host event folded in Idle into a map none of whose lists holds two
\* equal breakpoints gives a map none of whose lists holds two equal
\* breakpoints.
C18_NoEqualStoredBreakpoints ==
    (HostEventDone /\ NoBranchHasTwoEqual(last.map))
        => NoBranchHasTwoEqual(branchBreakpoints)

----------------------------------------------------------------------------
(* The branch array *)

UniqueNames(map) ==
    \A i, j \in 1..Len(map.branch) : i # j => map.branch[i].name # map.branch[j].name

\* C19: no two entries of the branch array have the same name, in the map in
\* memory and in the persisted blob, in every reachable state.
C19_BranchNamesUnique ==
    /\ UniqueNames(branchBreakpoints)
    /\ \A m \in workspaceState : UniqueNames(m)

C19_Witness ==
    /\ HostEventDone
    /\ BranchIndex(last.map, last.head) = -1
    /\ Len(last.map.branch) = 1
    /\ Len(branchBreakpoints.branch) = 2
    /\ workspaceState = {ToJson(branchBreakpoints)}

\* C20: a host event folded in while a branch is active keeps the version, the
\* length of the branch array but for a pushed entry of the active branch, and
\* the name, the list and the place of every other branch; the entry at the
\* active branch's index carries its name.
C20_OtherBranchesUntouched ==
    HostEventDone =>
        LET index == BranchIndex(last.map, last.head)
            old == last.map.branch
            new == branchBreakpoints.branch
        IN  /\ branchBreakpoints.version = last.map.version
            /\ Len(new) = IF index = -1 THEN Len(old) + 1 ELSE Len(old)
            /\ \A i \in 1..Len(old) : i # index + 1 => new[i] = old[i]
            /\ new[IF index = -1 THEN Len(old) + 1 ELSE index + 1].name = last.head

C20_Witness ==
    /\ HostEventDone
    /\ last.head = "dev"
    /\ Len(last.map.branch) = 2
    /\ last.map.branch[1].breakpoints # <<>>
    /\ branchBreakpoints.branch[2] # last.map.branch[2]
    /\ branchBreakpoints.branch[1] = last.map.branch[1]

====
